---- MODULE Spec2Model ----
(***************************************************************************)
(* Model of the average.x plugin of aiida-quantumespresso:                 *)
(*   - AverageCalculation.prepare_for_submission  (calculations/average.py)*)
(*   - AverageParser.parse / parse_data           (parsers/average.py)     *)
(* The parser is modelled statement by statement (pc), the calculation as  *)
(* one action.  The helpers inherited from BaseParser (parsers/base.py)    *)
(* are not part of the sources at hand and are modelled from the           *)
(* specification (section 4.2, stages 1 and 2).                            *)
(***************************************************************************)
EXTENDS Integers, Sequences, FiniteSets, TLC

VARIABLES
    pc,          \* position inside AverageParser.parse
    kwargs,      \* keyword arguments of parse: the set of keys supplied
    logs,        \* logs.error: the set of error names flagged by stdout parsing
    parsed_data, \* what parse_stdout_from_retrieved returned: "none", "partial", "full"
    outputs,     \* nodes registered with self.out: port name -> <<>> or <<node>>
    logs_emitted,\* self.exit(code, logs) has emitted the logs
    file,        \* the data file in the temporary folder: [state, content]
    file_open,   \* the file handle of the with block is open
    data,        \* local variable data of parse_data / the node handed to self.out
    exc,         \* exception raised inside parse ("" when none)
    result,      \* the exit code parse returned
    trace,       \* the stages parse has executed, in order
    inputs,      \* inputs of the calculation job
    calcinfo,    \* the CalcInfo prepare_for_submission returned
    folder       \* sandbox folder: the text written to the input file

vars == <<pc, kwargs, logs, parsed_data, outputs, logs_emitted, file, file_open,
          data, exc, result, trace, inputs, calcinfo, folder>>

parserVars == <<pc, kwargs, logs, parsed_data, outputs, logs_emitted, file,
                file_open, data, exc, result, trace>>

calcVars == <<inputs, calcinfo, folder>>

(***************************************************************************)
(* Bounds of the model                                                     *)
(***************************************************************************)
MaxRows == 2      \* rows of the data file
MaxCols == 3      \* tokens in one row of the data file
MaxNpts == 2      \* small values of npts (500 and 1000 are always tried)
MaxWindow == 3    \* window_size in whole Angstrom

(***************************************************************************)
(* Class attributes and exit codes of AverageCalculation                   *)
(***************************************************************************)
DEFAULT_INPUT_FILE == "avg.in"
DEFAULT_OUTPUT_FILE == "avg.out"
DEFAULT_INPUT_DATA_FILE == "aiida.filplot"
DEFAULT_OUTPUT_DATA_FILE == "avg.dat"

ERROR_NO_RETRIEVED_TEMPORARY_FOLDER == 301
ERROR_OUTPUT_STDOUT_MISSING == 302
ERROR_OUTPUT_XML_MISSING == 303
ERROR_OUTPUT_STDOUT_READ == 310
ERROR_OUTPUT_STDOUT_PARSE == 311
ERROR_OUTPUT_STDOUT_INCOMPLETE == 312
ERROR_OUT_OF_WALLTIME_INTERRUPTED == 340
ERROR_UNEXPECTED_PARSER_EXCEPTION == 350
ERROR_OUTPUT_DATAFILE_MISSING == 330
ERROR_OUTPUT_DATAFILE_READ == 331
ERROR_UNSUPPORTED_DATAFILE_FORMAT == 332
ERROR_OUTPUT_DATAFILE_PARSE == 333

\* An exit code with the fields of its message template filled in.
ExitCode(status, filename, exception) ==
    [status |-> status, filename |-> filename, exception |-> exception]

\* parse has not returned yet.
NoResult == ExitCode(-1, "", "")

\* Returning None from parse is exit status 0.
Success == ExitCode(0, "", "")

(***************************************************************************)
(* BaseParser helpers (parsers/base.py), modelled from the specification   *)
(***************************************************************************)
\* What the shared stdout grammar can report: the error it flags in
\* logs.error (none when the log is complete) and how much it parsed.
StdoutOutcomes ==
    { [error |-> {}, parsed |-> "full"],
      [error |-> {"ERROR_OUTPUT_STDOUT_MISSING"}, parsed |-> "none"],
      [error |-> {"ERROR_OUTPUT_STDOUT_READ"}, parsed |-> "none"],
      [error |-> {"ERROR_OUTPUT_STDOUT_PARSE"}, parsed |-> "none"],
      [error |-> {"ERROR_OUTPUT_STDOUT_INCOMPLETE"}, parsed |-> "partial"],
      [error |-> {"ERROR_OUT_OF_WALLTIME_INTERRUPTED"}, parsed |-> "partial"] }

BaseErrorStatus(name) ==
    CASE name = "ERROR_OUTPUT_STDOUT_MISSING" -> ERROR_OUTPUT_STDOUT_MISSING
      [] name = "ERROR_OUTPUT_STDOUT_READ" -> ERROR_OUTPUT_STDOUT_READ
      [] name = "ERROR_OUTPUT_STDOUT_PARSE" -> ERROR_OUTPUT_STDOUT_PARSE
      [] name = "ERROR_OUTPUT_STDOUT_INCOMPLETE" -> ERROR_OUTPUT_STDOUT_INCOMPLETE
      [] name = "ERROR_OUT_OF_WALLTIME_INTERRUPTED" -> ERROR_OUT_OF_WALLTIME_INTERRUPTED

\* check_base_errors: the exit status of the flagged base error, 0 (falsy) when
\* the log grammar flagged none.
check_base_errors(l) ==
    IF l = {} THEN 0 ELSE BaseErrorStatus(CHOOSE name \in l : TRUE)

(***************************************************************************)
(* The data file and numpy.loadtxt                                         *)
(***************************************************************************)
\* A token of the data file: a numeral, or a word that is no number.
Num(v) == [numeric |-> TRUE, v |-> v]
NonNum == [numeric |-> FALSE, v |-> 0]

\* One row of tokens: which of its 1..MaxCols tokens are numerals.
RowMasks == UNION { [1..k -> BOOLEAN] : k \in 1..MaxCols }

\* The file whose token at row r, column c is the numeral 10*r + c where the
\* mask says so and the non-numeric word elsewhere.
ContentOf(mask) ==
    [r \in 1..Len(mask) |->
        [c \in 1..Len(mask[r]) |-> IF mask[r][c] THEN Num(10 * r + c) ELSE NonNum]]

\* The data files tried: 0..MaxRows non-empty rows of 1..MaxCols tokens.
FileContents ==
    UNION { { ContentOf(mask) : mask \in [1..n -> RowMasks] } : n \in 0..MaxRows }

\* A number carrying the conversion factors it has been multiplied by.
Val(v) == [v |-> v, bohr |-> 0, ry |-> 0]
TimesBohr(x) == [x EXCEPT !.bohr = @ + 1]
TimesRy(x) == [x EXCEPT !.ry = @ + 1]

\* No array / no exception.
NoData == [exc |-> "", ndim |-> 0, rows |-> <<>>]

\* Number of dimensions loadtxt returns (ndmin=0 squeezes every axis of length
\* one; an empty input gives the one-dimensional empty array).
SqueezedNdim(n, c) ==
    IF n = 0 THEN 1 ELSE (IF n > 1 THEN 1 ELSE 0) + (IF c > 1 THEN 1 ELSE 0)

\* np.loadtxt(file_handler): ValueError on a token that is no number or on rows
\* of differing lengths, else the table of floats, squeezed.
LoadTxt(content) ==
    IF \E r \in 1..Len(content) : \E c \in 1..Len(content[r]) : ~content[r][c].numeric
    THEN [exc |-> "ValueError", ndim |-> 0, rows |-> <<>>]
    ELSE IF \E r1, r2 \in 1..Len(content) : Len(content[r1]) # Len(content[r2])
    THEN [exc |-> "ValueError", ndim |-> 0, rows |-> <<>>]
    ELSE [exc |-> "",
          ndim |-> SqueezedNdim(Len(content),
                                IF Len(content) = 0 THEN 0 ELSE Len(content[1])),
          rows |-> [r \in 1..Len(content) |->
                      [c \in 1..Len(content[r]) |-> Val(content[r][c].v)]]]

\* data[:, 0] *= Bohr ; data[:, 1:] *= Ry : IndexError unless data has two
\* dimensions.
Convert(d) ==
    IF d.ndim < 2
    THEN [exc |-> "IndexError", ndim |-> d.ndim, rows |-> d.rows]
    ELSE [d EXCEPT !.rows =
            [r \in 1..Len(d.rows) |->
               [c \in 1..Len(d.rows[r]) |->
                  IF c = 1 THEN TimesBohr(d.rows[r][c])
                  ELSE TimesRy(d.rows[r][c])]]]

\* except OSError matches FileNotFoundError and PermissionError too.
IsOSError(e) == e \in {"OSError", "FileNotFoundError", "PermissionError"}

(***************************************************************************)
(* AverageParser.parse, one action per statement                           *)
(***************************************************************************)
NoOutputs == [output_parameters |-> <<>>, output_data |-> <<>>]

NoFile == [state |-> "unknown", content |-> <<>>]

InitParser ==
    /\ pc = "parse_stdout"
    /\ kwargs \in { {}, {"retrieved_temporary_folder"} }
    /\ logs = {}
    /\ parsed_data = "none"
    /\ outputs = NoOutputs
    /\ logs_emitted = FALSE
    /\ file = NoFile
    /\ file_open = FALSE
    /\ data = NoData
    /\ exc = ""
    /\ result = NoResult
    /\ trace = <<>>

\* stdout, parsed_data, logs = self.parse_stdout_from_retrieved(logs)
ParseStdout ==
    /\ pc = "parse_stdout"
    /\ \E o \in StdoutOutcomes :
          /\ logs' = o.error
          /\ parsed_data' = o.parsed
    /\ trace' = Append(trace, "stdout_parse")
    /\ pc' = "check_base_errors"
    /\ UNCHANGED <<kwargs, outputs, logs_emitted, file, file_open, data, exc, result>>
    /\ UNCHANGED calcVars

\* base_exit_code = self.check_base_errors(logs)
\* if base_exit_code: return self.exit(base_exit_code, logs)
CheckBaseErrorsNoReturn ==
    /\ pc = "check_base_errors"
    /\ trace' = Append(trace, "base_error_gate")
    /\ pc' = "out_parameters"
    /\ UNCHANGED <<kwargs, logs, parsed_data, outputs, logs_emitted, file, file_open,
                   data, exc, result>>
    /\ UNCHANGED calcVars

CheckBaseErrors ==
    /\ pc = "check_base_errors"
    /\ trace' = Append(trace, "base_error_gate")
    /\ IF check_base_errors(logs) # 0
       THEN /\ logs_emitted' = TRUE
            /\ result' = ExitCode(check_base_errors(logs), "", "")
            /\ pc' = "done"
       ELSE /\ pc' = "out_parameters"
            /\ UNCHANGED <<logs_emitted, result>>
    /\ UNCHANGED <<kwargs, logs, parsed_data, outputs, file, file_open, data, exc>>
    /\ UNCHANGED calcVars

\* self.out("output_parameters", orm.Dict(parsed_data))
OutParametersSkipped ==
    /\ pc = "out_parameters"
    /\ trace' = Append(trace, "emit_log")
    /\ pc' = "get_temporary_folder"
    /\ UNCHANGED <<kwargs, logs, parsed_data, outputs, logs_emitted, file, file_open,
                   data, exc, result>>
    /\ UNCHANGED calcVars

OutParameters ==
    /\ pc = "out_parameters"
    /\ outputs' = [outputs EXCEPT !.output_parameters = <<parsed_data>>]
    /\ trace' = Append(trace, "emit_log")
    /\ pc' = "get_temporary_folder"
    /\ UNCHANGED <<kwargs, logs, parsed_data, logs_emitted, file, file_open, data,
                   exc, result>>
    /\ UNCHANGED calcVars

\* try: retrieved_temporary_folder = kwargs["retrieved_temporary_folder"]
\* except KeyError: return self.exit(self.exit_codes.ERROR_NO_RETRIEVED_TEMPORARY_FOLDER)
GetTemporaryFolderWrongCode ==
    /\ pc = "get_temporary_folder"
    /\ trace' = Append(trace, "tmp_folder")
    /\ IF "retrieved_temporary_folder" \notin kwargs
       THEN /\ result' = ExitCode(ERROR_OUTPUT_DATAFILE_MISSING, "", "")
            /\ pc' = "done"
       ELSE /\ pc' = "open"
            /\ UNCHANGED result
    /\ UNCHANGED <<kwargs, logs, parsed_data, outputs, logs_emitted, file, file_open,
                   data, exc>>
    /\ UNCHANGED calcVars

GetTemporaryFolder ==
    /\ pc = "get_temporary_folder"
    /\ trace' = Append(trace, "tmp_folder")
    /\ IF "retrieved_temporary_folder" \notin kwargs
       THEN /\ result' = ExitCode(ERROR_NO_RETRIEVED_TEMPORARY_FOLDER, "", "")
            /\ pc' = "done"
       ELSE /\ pc' = "open"
            /\ UNCHANGED result
    /\ UNCHANGED <<kwargs, logs, parsed_data, outputs, logs_emitted, file, file_open,
                   data, exc>>
    /\ UNCHANGED calcVars

\* with open(os.path.join(retrieved_temporary_folder, "avg.dat"), "r") as file_handler:
\* the file is absent (FileNotFoundError), cannot be opened (PermissionError),
\* or is opened with some content.
OpenDataFile ==
    /\ pc = "open"
    /\ trace' = Append(trace, "read")
    /\ \/ /\ file' = [state |-> "absent", content |-> <<>>]
          /\ exc' = "FileNotFoundError"
          /\ pc' = "handler"
          /\ UNCHANGED file_open
       \/ /\ file' = [state |-> "unreadable", content |-> <<>>]
          /\ exc' = "PermissionError"
          /\ pc' = "handler"
          /\ UNCHANGED file_open
       \/ /\ \E content \in FileContents :
                file' = [state |-> "present", content |-> content]
          /\ file_open' = TRUE
          /\ pc' = "loadtxt"
          /\ UNCHANGED exc
    /\ UNCHANGED <<kwargs, logs, parsed_data, outputs, logs_emitted, data, result>>
    /\ UNCHANGED calcVars

\* parse_data: data = np.loadtxt(file_handler); reading may fail with OSError.
LoadTxtStep ==
    /\ pc = "loadtxt"
    /\ trace' = Append(trace, "parse")
    /\ \/ /\ exc' = "OSError"
          /\ pc' = "exit_with"
          /\ UNCHANGED data
       \/ /\ data' = LoadTxt(file.content)
          /\ exc' = LoadTxt(file.content).exc
          /\ pc' = IF LoadTxt(file.content).exc # "" THEN "exit_with" ELSE "convert"
    /\ UNCHANGED <<kwargs, logs, parsed_data, outputs, logs_emitted, file, file_open,
                   result>>
    /\ UNCHANGED calcVars

\* parse_data: data[:, 0] *= Bohr ; data[:, 1:] *= Ry
ConvertStep ==
    /\ pc = "convert"
    /\ trace' = Append(trace, "convert")
    /\ data' = Convert(data)
    /\ exc' = Convert(data).exc
    /\ pc' = IF Convert(data).exc # "" THEN "exit_with" ELSE "out_data"
    /\ UNCHANGED <<kwargs, logs, parsed_data, outputs, logs_emitted, file, file_open,
                   result>>
    /\ UNCHANGED calcVars

\* self.out("output_data", orm.ArrayData(data)): the node is registered, or
\* building or registering it raises (TypeError stands for any such exception).
OutData ==
    /\ pc = "out_data"
    /\ trace' = Append(trace, "emit_data")
    /\ \/ /\ outputs' = [outputs EXCEPT !.output_data = <<data>>]
          /\ UNCHANGED exc
       \/ /\ exc' = "TypeError"
          /\ UNCHANGED outputs
    /\ pc' = "exit_with"
    /\ UNCHANGED <<kwargs, logs, parsed_data, logs_emitted, file, file_open, data,
                   result>>
    /\ UNCHANGED calcVars

\* Leaving the with block, normally or by an exception, closes the file.
ExitWithLeakOnError ==
    /\ pc = "exit_with"
    /\ file_open' = (exc # "")
    /\ pc' = IF exc # "" THEN "handler" ELSE "return"
    /\ UNCHANGED <<kwargs, logs, parsed_data, outputs, logs_emitted, file, data, exc,
                   result, trace>>
    /\ UNCHANGED calcVars

ExitWith ==
    /\ pc = "exit_with"
    /\ file_open' = FALSE
    /\ pc' = IF exc # "" THEN "handler" ELSE "return"
    /\ UNCHANGED <<kwargs, logs, parsed_data, outputs, logs_emitted, file, data, exc,
                   result, trace>>
    /\ UNCHANGED calcVars

\* except OSError: return ERROR_OUTPUT_DATAFILE_READ.format(filename=...)
\* except Exception as exception: return ERROR_OUTPUT_DATAFILE_PARSE.format(...)
Handler ==
    /\ pc = "handler"
    /\ result' = IF IsOSError(exc)
                 THEN ExitCode(ERROR_OUTPUT_DATAFILE_READ, DEFAULT_OUTPUT_DATA_FILE, "")
                 ELSE ExitCode(ERROR_OUTPUT_DATAFILE_PARSE, DEFAULT_OUTPUT_DATA_FILE, exc)
    /\ pc' = "done"
    /\ UNCHANGED <<kwargs, logs, parsed_data, outputs, logs_emitted, file, file_open,
                   data, exc, trace>>
    /\ UNCHANGED calcVars

\* Falling off the end of parse returns None: success.
Return ==
    /\ pc = "return"
    /\ result' = Success
    /\ pc' = "done"
    /\ UNCHANGED <<kwargs, logs, parsed_data, outputs, logs_emitted, file, file_open,
                   data, exc, trace>>
    /\ UNCHANGED calcVars

(***************************************************************************)
(* AverageCalculation.prepare_for_submission                               *)
(***************************************************************************)
\* 1 / ase.units.Bohr = 1.8897261258369282, in units of 1e-8 and the next five
\* digits: f"{x / Bohr:.8f}" for a whole number x of Angstrom.
InvBohrE8 == 188972612
InvBohrE13Tail == 58369

Digit(d) ==
    CASE d = 0 -> "0" [] d = 1 -> "1" [] d = 2 -> "2" [] d = 3 -> "3" [] d = 4 -> "4"
      [] d = 5 -> "5" [] d = 6 -> "6" [] d = 7 -> "7" [] d = 8 -> "8" [] d = 9 -> "9"

\* f"{n}" for an integer n >= 0.
RECURSIVE DecStr(_)
DecStr(n) == IF n < 10 THEN Digit(n) ELSE DecStr(n \div 10) \o Digit(n % 10)

\* The last k decimal digits of n, zero padded.
RECURSIVE PadStr(_, _)
PadStr(n, k) == IF k = 0 THEN "" ELSE PadStr(n \div 10, k - 1) \o Digit(n % 10)

\* window_size / Bohr rounded to 8 decimals, as an integer number of 1e-8 Bohr.
ToBohrE8(x) == x * InvBohrE8 + (x * InvBohrE13Tail + 50000) \div 100000

\* f"{window_size / Bohr:.8f}"
FormatBohr(x) ==
    DecStr(ToBohrE8(x) \div 100000000) \o "." \o PadStr(ToBohrE8(x) % 100000000, 8)

\* The text of a file is the sequence of the pieces written: strings without a
\* newline, and the newline.
NL == "\n"
WriteLine(text, s) == text \o <<s, NL>>

\* The six infile.write calls.
InputFileSwapped(inp) ==
    WriteLine(WriteLine(WriteLine(WriteLine(WriteLine(WriteLine(<<>>,
        "1"),
        DEFAULT_INPUT_DATA_FILE),
        "1.D0"),
        DecStr(inp.average_axis)),
        DecStr(inp.npts)),
        FormatBohr(inp.window_size))

InputFile(inp) ==
    WriteLine(WriteLine(WriteLine(WriteLine(WriteLine(WriteLine(<<>>,
        "1"),
        DEFAULT_INPUT_DATA_FILE),
        "1.D0"),
        DecStr(inp.npts)),
        DecStr(inp.average_axis)),
        FormatBohr(inp.window_size))

\* calcinfo.retrieve_list = [self.inputs.metadata.options.output_filename]
RetrieveListWithData(inp) == <<inp.output_filename, DEFAULT_OUTPUT_DATA_FILE>>

RetrieveList(inp) == <<inp.output_filename>>

NoCalcInfo ==
    [stdin_name |-> "", stdout_name |-> "", remote_copy_list |-> <<>>,
     local_copy_list |-> <<>>, retrieve_list |-> <<>>,
     retrieve_temporary_list |-> <<>>]

NoFolder == [name |-> "", text |-> <<>>]

\* The validated input ports: average_axis in {1,2,3}, npts > 0, window_size > 0,
\* and the file name options (any string; the defaults and two others).
Inputs ==
    [average_axis : {1, 2, 3},
     npts : (1..MaxNpts) \cup {500, 1000},
     window_size : 1..MaxWindow,
     input_filename : {DEFAULT_INPUT_FILE, "aiida.in"},
     output_filename : {DEFAULT_OUTPUT_FILE, "aiida.out", DEFAULT_OUTPUT_DATA_FILE}]

DefaultInputs ==
    [average_axis |-> 3, npts |-> 1000, window_size |-> 1,
     input_filename |-> DEFAULT_INPUT_FILE, output_filename |-> DEFAULT_OUTPUT_FILE]

InitCalc ==
    /\ inputs \in Inputs
    /\ calcinfo = NoCalcInfo
    /\ folder = NoFolder

prepare_for_submission ==
    /\ calcinfo = NoCalcInfo
    /\ calcinfo' =
          [stdin_name |-> inputs.input_filename,
           stdout_name |-> inputs.output_filename,
           remote_copy_list |-> <<DEFAULT_INPUT_DATA_FILE>>,
           local_copy_list |-> <<>>,
           retrieve_list |-> RetrieveList(inputs),
           retrieve_temporary_list |-> <<DEFAULT_OUTPUT_DATA_FILE>>]
    /\ folder' = [name |-> inputs.input_filename, text |-> InputFile(inputs)]
    /\ UNCHANGED inputs
    /\ UNCHANGED parserVars

(***************************************************************************)
(* Specifications                                                          *)
(***************************************************************************)
\* The parser, run on the retrieved files of a finished calculation.
Init ==
    /\ InitParser
    /\ inputs = DefaultInputs
    /\ calcinfo = NoCalcInfo
    /\ folder = NoFolder

Next ==
    \/ ParseStdout
    \/ CheckBaseErrors
    \/ OutParameters
    \/ GetTemporaryFolder
    \/ OpenDataFile
    \/ LoadTxtStep
    \/ ConvertStep
    \/ OutData
    \/ ExitWith
    \/ Handler
    \/ Return

Spec == Init /\ [][Next]_vars

\* The calculation plugin, run before submission.
InitCompose ==
    /\ InitCalc
    /\ pc = "parse_stdout"
    /\ kwargs = {}
    /\ logs = {}
    /\ parsed_data = "none"
    /\ outputs = NoOutputs
    /\ logs_emitted = FALSE
    /\ file = NoFile
    /\ file_open = FALSE
    /\ data = NoData
    /\ exc = ""
    /\ result = NoResult
    /\ trace = <<>>

NextCompose == prepare_for_submission

SpecCompose == InitCompose /\ [][NextCompose]_vars

(***************************************************************************)
(* Properties of AverageParser.parse                                       *)
(***************************************************************************)
HasTemporaryFolder == "retrieved_temporary_folder" \in kwargs

BaseErrorFlagged == check_base_errors(logs) # 0

Returned == pc = "done"

\* The stages of parse in program order.
StageOrder ==
    <<"stdout_parse", "base_error_gate", "emit_log", "tmp_folder", "read", "parse",
      "convert", "emit_data">>

LastStage == IF trace = <<>> THEN "" ELSE trace[Len(trace)]

\* Every row has exactly three tokens and every token is a numeral.
WellFormed3(content) ==
    \A r \in 1..Len(content) :
        /\ Len(content[r]) = 3
        /\ \A c \in 1..3 : content[r][c].numeric

\* The table the file holds, column 0 times Bohr, columns 1 and 2 times Ry.
ExpectedField(content) ==
    [r \in 1..Len(content) |->
        [c \in 1..Len(content[r]) |->
            [v |-> content[r][c].v,
             bohr |-> IF c = 1 THEN 1 ELSE 0,
             ry |-> IF c = 1 THEN 0 ELSE 1]]]

\* C1: with no base error and a temporary folder that lacks avg.dat, parse
\* returns ERROR_OUTPUT_DATAFILE_MISSING (330) carrying the file name avg.dat.
C1_MissingFileIsDatafileMissing ==
    (Returned /\ ~BaseErrorFlagged /\ HasTemporaryFolder /\ file.state = "absent")
        => result = ExitCode(ERROR_OUTPUT_DATAFILE_MISSING, DEFAULT_OUTPUT_DATA_FILE, "")

\* C2 as stated: without a temporary-folder handle parse returns
\* ERROR_NO_RETRIEVED_TEMPORARY_FOLDER (301) whatever stdout contains.
C2_NoFolderAlways301 ==
    (Returned /\ ~HasTemporaryFolder)
        => result.status = ERROR_NO_RETRIEVED_TEMPORARY_FOLDER

\* C2 amended: without a temporary-folder handle parse returns 301 when stdout
\* parsing flagged no base error, and the status of the base error when it did.
C2_NoFolder301UnlessBaseError ==
    (Returned /\ ~HasTemporaryFolder)
        => result.status = IF BaseErrorFlagged THEN check_base_errors(logs)
                           ELSE ERROR_NO_RETRIEVED_TEMPORARY_FOLDER

C2_Witness ==
    /\ Returned
    /\ ~HasTemporaryFolder
    /\ ~BaseErrorFlagged
    /\ result.status = ERROR_NO_RETRIEVED_TEMPORARY_FOLDER

\* C3 as stated: whenever stdout parsing reached at least a partial result,
\* output_parameters is emitted before parse returns, and a halt at the
\* base-error gate emits no output_data.
C3_LogRecordWheneverParsed ==
    Returned =>
        /\ (parsed_data # "none" => outputs.output_parameters # <<>>)
        /\ (BaseErrorFlagged => outputs.output_data = <<>>)

\* C3 amended: output_parameters is emitted before parse returns exactly in
\* the runs where the base-error gate passes, whether or not a later stage
\* fails; a halt at the gate emits neither output_parameters nor output_data.
C3_LogRecordIffGatePassed ==
    Returned =>
        /\ (~BaseErrorFlagged => outputs.output_parameters = <<parsed_data>>)
        /\ (BaseErrorFlagged => outputs = NoOutputs)

C3_Witness ==
    /\ Returned
    /\ outputs.output_parameters = <<"full">>
    /\ outputs.output_data = <<>>
    /\ result.status = ERROR_OUTPUT_DATAFILE_PARSE

\* C4: an exception that is none of the anticipated stage failures (here: one
\* raised while the output node is built and registered) is reported as
\* ERROR_UNEXPECTED_PARSER_EXCEPTION (350) carrying the exception.
C4_UnexpectedExceptionIs350 ==
    (Returned /\ exc = "TypeError")
        => result = ExitCode(ERROR_UNEXPECTED_PARSER_EXCEPTION, "", exc)

\* C5: a readable data file that is not a numeric table of exactly 3 columns
\* gives ERROR_OUTPUT_DATAFILE_PARSE (333) with the file name and the
\* exception, and no output_data.
C5_NotThreeColumnsIsParseError ==
    (Returned /\ file.state = "present" /\ ~WellFormed3(file.content) /\ ~IsOSError(exc))
        => /\ exc # ""
           /\ result = ExitCode(ERROR_OUTPUT_DATAFILE_PARSE, DEFAULT_OUTPUT_DATA_FILE, exc)
           /\ outputs.output_data = <<>>

\* C6: a well-formed 3-column file of N >= 0 rows that is read and whose node
\* is registered without failure gives success and an output_data of the same
\* N rows in order, column 0 times Bohr and columns 1, 2 times Ry, once each.
C6_WellFormedFileDecodes ==
    (Returned /\ file.state = "present" /\ WellFormed3(file.content)
        /\ ~IsOSError(exc) /\ exc # "TypeError")
        => /\ result = Success
           /\ outputs.output_data # <<>>
           /\ outputs.output_data[1].rows = ExpectedField(file.content)

\* C9: the stages run in program order, each failure ends the run at its
\* stage, the data file is never opened after a base error or without a
\* temporary folder, and output_data is emitted exactly when every stage
\* passed and parse returns success.
C9_StrictStageOrder ==
    /\ Len(trace) <= Len(StageOrder)
    /\ trace = SubSeq(StageOrder, 1, Len(trace))
    /\ ((BaseErrorFlagged \/ ~HasTemporaryFolder)
            => (file = NoFile /\ ~file_open /\ data = NoData))
    /\ Returned =>
          /\ outputs.output_data # <<>> <=> result = Success
          /\ result = Success <=> (trace = StageOrder /\ exc = "")
          /\ BaseErrorFlagged => LastStage = "base_error_gate"
          /\ (~BaseErrorFlagged /\ ~HasTemporaryFolder) => LastStage = "tmp_folder"
          /\ result.status = ERROR_OUTPUT_DATAFILE_READ => LastStage \in {"read", "parse"}
          /\ result.status = ERROR_OUTPUT_DATAFILE_PARSE
                => LastStage \in {"parse", "convert", "emit_data"}

C9_Witness ==
    /\ Returned
    /\ result = Success
    /\ outputs.output_data # <<>>
    /\ trace = StageOrder

\* C10: once the data file has been opened, its handle is closed before the
\* exception handlers run and before parse returns, on every path.
C10_FileClosedOnReturn ==
    pc \in {"handler", "return", "done"} => ~file_open

C10_Witness ==
    /\ Returned
    /\ file.state = "present"
    /\ exc = "TypeError"
    /\ ~file_open

(***************************************************************************)
(* Properties of AverageCalculation.prepare_for_submission                 *)
(***************************************************************************)
Composed == calcinfo # NoCalcInfo

\* The lines of a text: the pieces between newlines, joined.
RECURSIVE SplitLines(_, _)
SplitLines(text, cur) ==
    IF text = <<>> THEN (IF cur = "" THEN <<>> ELSE <<cur>>)
    ELSE IF Head(text) = NL THEN <<cur>> \o SplitLines(Tail(text), "")
    ELSE SplitLines(Tail(text), cur \o Head(text))

NewlineTerminated(text) == text # <<>> /\ text[Len(text)] = NL

Range(seq) == { seq[i] : i \in 1..Len(seq) }

\* The decimal numerals of the values of npts and average_axis tried.
Numeral(n) ==
    CASE n = 1 -> "1" [] n = 2 -> "2" [] n = 3 -> "3" [] n = 4 -> "4"
      [] n = 500 -> "500" [] n = 1000 -> "1000"

\* window_size / 0.5291772105638411 to 8 decimals, for the sizes tried.
InBohr(x) ==
    CASE x = 1 -> "1.88972613" [] x = 2 -> "3.77945225" [] x = 3 -> "5.66917838"
      [] x = 4 -> "7.55890450" [] x = 5 -> "9.44863063"

\* C7 as stated: the input file has six newline-terminated lines: 1, the
\* input data file name, 1.0, npts, average_axis, window_size in Bohr.
C7_SixLinesWithOnePointZero ==
    Composed =>
        /\ NewlineTerminated(folder.text)
        /\ SplitLines(folder.text, "") =
              <<"1", "aiida.filplot", "1.0", Numeral(inputs.npts),
                Numeral(inputs.average_axis), InBohr(inputs.window_size)>>

\* C7 amended: the input file has six newline-terminated lines: 1, the input
\* data file name, the Fortran literal 1.D0, npts, average_axis, window_size
\* in Bohr with 8 decimals; it is written under the input_filename option.
C7_SixLinesWithFortranOne ==
    Composed =>
        /\ folder.name = inputs.input_filename
        /\ NewlineTerminated(folder.text)
        /\ SplitLines(folder.text, "") =
              <<"1", "aiida.filplot", "1.D0", Numeral(inputs.npts),
                Numeral(inputs.average_axis), InBohr(inputs.window_size)>>

C7_Witness ==
    /\ Composed
    /\ inputs.npts = 500
    /\ inputs.average_axis = 3
    /\ inputs.window_size = 2
    /\ Len(SplitLines(folder.text, "")) = 6

\* C8 as stated: copy-in is exactly aiida.filplot, retrieve is exactly the
\* stdout file, retrieve-temporary is exactly avg.dat, and avg.dat is never in
\* the retrieve list, whatever the stdout file name option.
C8_TemporaryNeverPermanent ==
    Composed =>
        /\ calcinfo.remote_copy_list = <<"aiida.filplot">>
        /\ calcinfo.retrieve_list = <<inputs.output_filename>>
        /\ calcinfo.retrieve_temporary_list = <<"avg.dat">>
        /\ "avg.dat" \notin Range(calcinfo.retrieve_list)

\* C8 amended: the three lists are as stated, and avg.dat is in the retrieve
\* list exactly when the stdout file name option is itself avg.dat.
C8_TemporaryPermanentOnlyIfStdout ==
    Composed =>
        /\ calcinfo.remote_copy_list = <<"aiida.filplot">>
        /\ calcinfo.retrieve_list = <<inputs.output_filename>>
        /\ calcinfo.retrieve_temporary_list = <<"avg.dat">>
        /\ "avg.dat" \in Range(calcinfo.retrieve_list)
              <=> inputs.output_filename = "avg.dat"

C8_Witness ==
    /\ Composed
    /\ inputs.output_filename = "aiida.out"
    /\ calcinfo.retrieve_list = <<"aiida.out">>
    /\ calcinfo.retrieve_temporary_list = <<"avg.dat">>

====
